---- MODULE Spec2Model ----
(***************************************************************************)
(* Model of the JWO video client, final revision (src/video_client.py):   *)
(* the main() coroutine, the observers registered by create_video_conn,   *)
(* the display sink VideoDisplayTrack, the loop's exception handler and   *)
(* the asyncio event loop that interleaves them.                           *)
(*                                                                         *)
(* Every action is one uninterrupted run of a callback or of a coroutine   *)
(* between two awaits.  The WebRTC engine, the signaling server, the       *)
(* operator (signals, quit key) and the remote peer are the environment:   *)
(* their inputs are drawn from small sets.                                 *)
(*                                                                         *)
(* event_loop.stop() is taken to end the loop at once: no callback runs    *)
(* after it.  The one step that needs no loop is the finalization of the   *)
(* failed main() task, which calls the exception handler.                  *)
(***************************************************************************)
EXTENDS Naturals, Sequences, FiniteSets

VARIABLES
    debugFlag,        \* args.debug
    fileGiven,        \* args.file is not None
    serverUrl,        \* config["video_server"]["url"]
    pc,               \* position of the main() task
    source,           \* the media sources a player was opened on
    connCreated,      \* create_video_conn has returned
    acceptDebugVideo, \* the accept_debug_video argument of create_video_conn
    direction,        \* direction of the transceiver added to the connection
    offer,            \* sdp of the local offer
    localSet,         \* local description set
    remoteSet,        \* remote description set
    remoteDesc,       \* the description applied as remote description
    offers,           \* number of createOffer calls that produced an offer
    posts,            \* number of HTTP POSTs issued
    answers,          \* number of answers applied as remote description
    steps,            \* startup steps completed, in order
    postBody,         \* JSON body of the POST
    resp,             \* response of the signaling server
    returnedId,       \* value returned by send_video_conn_offer
    failure,          \* exception that ended the main() task
    errUrl,           \* url carried by the AppException
    handled,          \* exception_handler has run
    logged,           \* how exception_handler logged the exception
    connClosed,       \* peer_conn.close() has been called
    connectionState,  \* peer_conn.connectionState
    pendingEvents,    \* scheduled on_conn_state_change() coroutines
    sigTasks,         \* on_stop_signal() tasks, one per received signal
    loopStopped,      \* event_loop.stop() has been called
    sinks,            \* display sinks (VideoDisplayTrack) in media_blackhole
    windowOpen,       \* the "Debug" window exists
    windowCreates,    \* times the "Debug" window was created
    tracksDelivered,  \* inbound tracks delivered to on_track
    blackholeStarted, \* media_blackhole.start() has run
    frames            \* frames received by the display sinks

vars == <<debugFlag, fileGiven, serverUrl, pc, source, connCreated,
          acceptDebugVideo, direction, offer, localSet, remoteSet, remoteDesc,
          offers, posts, answers, steps, postBody, resp, returnedId, failure, errUrl,
          handled, logged, connClosed, connectionState, pendingEvents,
          sigTasks, loopStopped, sinks, windowOpen, windowCreates,
          tracksDelivered,
          blackholeStarted, frames>>

inputVars == <<debugFlag, fileGiven, serverUrl>>
negoVars  == <<offer, localSet, remoteSet, remoteDesc, offers, posts, answers, steps,
               postBody, resp, returnedId>>
errVars   == <<failure, errUrl>>
hdlVars   == <<handled, logged>>
connVars  == <<connClosed, connectionState, pendingEvents>>
sinkVars  == <<sinks, windowOpen, windowCreates, tracksDelivered, frames>>
setupVars == <<source, connCreated, acceptDebugVideo, direction>>

(***************************************************************************)
(* Bounds of the model.                                                    *)
(***************************************************************************)
MaxSignals == 2      \* shutdown signals received
MaxTracks  == 2      \* inbound tracks delivered by the remote peer
MaxFrames  == 1      \* frames without the quit key shown by the display path

(***************************************************************************)
(* Input domains.                                                          *)
(***************************************************************************)
Urls       == {"http://localhost:8080/offer", "http://video-server/offer"}
OfferSdps  == {"O1", "O2"}
Absent     == "<absent>"
AnswerSdps == {"A", "B"}
AnswerTypes == {"answer", "pranswer"}
Ids        == {"xyz", "abc"}
TrackKinds == {"video", "audio"}
Keys       == {"q", "none"}

\* No request has been sent: a body with no field.
NoBody == [k \in {} |-> Absent]
NoDesc == [sdp |-> Absent, type |-> Absent]
NoResp == [json |-> FALSE, sdp |-> Absent, type |-> Absent, id |-> Absent]

\* Every response over the values above: a body that is no JSON, or a JSON
\* object with any subset of the keys sdp, type and id.
AllResponses ==
    {NoResp} \cup
    [json : {TRUE},
     sdp  : AnswerSdps \cup {Absent},
     type : AnswerTypes \cup {Absent},
     id   : Ids \cup {Absent}]

\* The responses the final revision is run against: a body that is no JSON,
\* a JSON object that has any subset of the keys sdp, type and id, or a
\* complete object with other values.
Responses ==
    {NoResp} \cup
    [json : {TRUE},
     sdp  : {"A", Absent},
     type : {"answer", Absent},
     id   : {"xyz", Absent}] \cup
    {[json |-> TRUE, sdp |-> "B", type |-> "pranswer", id |-> "abc"]}

HasKey(r, k) == r[k] # Absent

Init ==
    /\ debugFlag \in BOOLEAN
    /\ fileGiven \in BOOLEAN
    /\ serverUrl \in Urls
    /\ pc = "start"
    /\ source = {}
    /\ connCreated = FALSE
    /\ acceptDebugVideo = FALSE
    /\ direction = "none"
    /\ offer = Absent
    /\ localSet = FALSE
    /\ remoteSet = FALSE
    /\ remoteDesc = NoDesc
    /\ offers = 0
    /\ posts = 0
    /\ answers = 0
    /\ steps = <<>>
    /\ postBody = NoBody
    /\ resp = NoResp
    /\ returnedId = Absent
    /\ failure = "none"
    /\ errUrl = Absent
    /\ handled = FALSE
    /\ logged = "none"
    /\ connClosed = FALSE
    /\ connectionState = "new"
    /\ pendingEvents = 0
    /\ sigTasks = <<>>
    /\ loopStopped = FALSE
    /\ sinks = <<>>
    /\ windowOpen = FALSE
    /\ windowCreates = 0
    /\ tracksDelivered = 0
    /\ blackholeStarted = FALSE
    /\ frames = 0


(***************************************************************************)
(* main(): source selection and connection creation.                       *)
(***************************************************************************)

\* An exception leaves the main() task: the task is done, with the exception.
Raise(kind, url) ==
    /\ pc' = "failed"
    /\ failure' = kind
    /\ errUrl' = url

\* Mutant: the capture device is opened whether or not a file is given.
SelectSource_DeviceToo(file) == IF file THEN {"file", "device"} ELSE {"device"}

\* main() opens the file when a path is given, else the capture device.
SelectSource(file) == IF file THEN {"file"} ELSE {"device"}

\* create_video_track_from_file / create_video_track_from_capture_dev: the
\* media player opens the source, or raises when it cannot be opened.
CreateTrack ==
    /\ pc = "start" /\ ~loopStopped
    /\ source' = SelectSource(fileGiven)
    /\ \E opened \in BOOLEAN :
         IF opened
           THEN /\ steps' = Append(steps, "track")
                /\ pc' = "track"
                /\ UNCHANGED errVars
           ELSE /\ Raise("Exception", Absent)
                /\ UNCHANGED steps
    /\ UNCHANGED <<inputVars, connCreated, acceptDebugVideo, direction, offer,
                   localSet, remoteSet, remoteDesc, offers, posts, answers, postBody, resp,
                   returnedId, hdlVars, connVars, sigTasks, loopStopped,
                   sinkVars, blackholeStarted>>

\* create_video_conn adds the transceiver send+receive or send-only.
TransceiverDirection(accept) == IF accept THEN "sendrecv" ELSE "sendonly"

\* create_video_conn(video_track, accept): a new connection, the signal
\* handlers, the two observers and the transceiver.
CreateVideoConn(accept) ==
    /\ pc = "track" /\ ~loopStopped
    /\ connCreated' = TRUE
    /\ acceptDebugVideo' = accept
    /\ direction' = TransceiverDirection(accept)
    /\ steps' = Append(steps, "conn")
    /\ pc' = "conn"
    /\ UNCHANGED <<inputVars, source, offer, localSet, remoteSet, remoteDesc, offers, posts,
                   answers, postBody, resp, returnedId, errVars, hdlVars,
                   connVars, sigTasks, loopStopped, sinkVars, blackholeStarted>>

\* The argument main() passes as accept_debug_video.
MainAcceptDebugVideo == TRUE

MainCreateConn == CreateVideoConn(MainAcceptDebugVideo)

(***************************************************************************)
(* send_video_conn_offer().                                                *)
(***************************************************************************)

\* An engine call on the connection: it raises on a closed connection
\* (InvalidStateError) and may raise on an open one; otherwise it succeeds.
EngineResults == IF connClosed THEN {"raise"} ELSE {"ok", "raise"}

\* offer = await peer_conn.createOffer()
CreateOffer ==
    /\ pc = "conn" /\ ~loopStopped
    /\ \E res \in EngineResults :
         IF res = "ok"
           THEN /\ \E o \in OfferSdps : offer' = o
                /\ offers' = offers + 1
                /\ steps' = Append(steps, "offer")
                /\ pc' = "offer"
                /\ UNCHANGED errVars
           ELSE /\ Raise("Exception", Absent)
                /\ UNCHANGED <<offer, offers, steps>>
    /\ UNCHANGED <<inputVars, setupVars, localSet, remoteSet, remoteDesc, posts, answers,
                   postBody, resp, returnedId, hdlVars, connVars, sigTasks,
                   loopStopped, sinkVars, blackholeStarted>>

\* await peer_conn.setLocalDescription(offer)
SetLocalDescription ==
    /\ pc = "offer" /\ ~loopStopped
    /\ \E res \in EngineResults :
         IF res = "ok"
           THEN /\ localSet' = TRUE
                /\ steps' = Append(steps, "local")
                /\ pc' = "local"
                /\ UNCHANGED errVars
           ELSE /\ Raise("Exception", Absent)
                /\ UNCHANGED <<localSet, steps>>
    /\ UNCHANGED <<inputVars, setupVars, offer, remoteSet, remoteDesc, offers, posts,
                   answers, postBody, resp, returnedId, hdlVars, connVars,
                   sigTasks, loopStopped, sinkVars, blackholeStarted>>

\* Mutant: the POST is issued without waiting for the local description.
SendPost_Early ==
    /\ pc \in {"offer", "local"} /\ ~loopStopped
    /\ postBody' = [sdp |-> offer, type |-> "offer",
                    use_debug_video |-> debugFlag]
    /\ posts' = posts + 1
    /\ steps' = Append(steps, "post")
    /\ pc' = "posting"
    /\ UNCHANGED <<inputVars, setupVars, offer, localSet, remoteSet, remoteDesc, offers,
                   answers, resp, returnedId, errVars, hdlVars, connVars,
                   sigTasks, loopStopped, sinkVars, blackholeStarted>>

\* The type of the description createOffer returns.
OfferType == "offer"

\* Mutant: the body of the package entry-point revision, without the flag.
OfferBody_NoFlag(sdp, useDebugVideo) ==
    [sdp |-> sdp, type |-> OfferType]

\* The JSON body of the POST: offer.sdp, offer.type and the requested flag.
OfferBody(sdp, useDebugVideo) ==
    [sdp |-> sdp, type |-> OfferType, use_debug_video |-> useDebugVideo]

\* session.post(server_url, json=offer_body): the request is issued and the
\* coroutine waits for the response.
SendPost ==
    /\ pc = "local" /\ ~loopStopped
    /\ postBody' = OfferBody(offer, debugFlag)
    /\ posts' = posts + 1
    /\ steps' = Append(steps, "post")
    /\ pc' = "posting"
    /\ UNCHANGED <<inputVars, setupVars, offer, localSet, remoteSet, remoteDesc, offers,
                   answers, resp, returnedId, errVars, hdlVars, connVars,
                   sigTasks, loopStopped, sinkVars, blackholeStarted>>

\* Mutant: a connection error sends the coroutine back to post again.
OnConnectionError_Retry(url) ==
    /\ pc' = "local"
    /\ UNCHANGED <<posts, connVars, errVars>>

\* What send_video_conn_offer does with ClientConnectionError: it raises
\* AppException("Failed to connect to <server_url>").
OnConnectionError(url) ==
    /\ Raise("AppException", url)
    /\ UNCHANGED <<posts, connVars>>

\* The POST cannot connect.
PostConnectFail ==
    /\ pc = "posting" /\ ~loopStopped
    /\ OnConnectionError(serverUrl)
    /\ UNCHANGED <<inputVars, setupVars, offer, localSet, remoteSet, remoteDesc, offers,
                   answers, steps, postBody, resp, returnedId, hdlVars,
                   sigTasks, loopStopped, sinkVars, blackholeStarted>>

\* The response arrives and resp.json() parses it, or raises when the body is
\* no JSON.
PostResponse ==
    /\ pc = "posting" /\ ~loopStopped
    /\ \E r \in Responses :
         IF r.json
           THEN /\ resp' = r
                /\ steps' = Append(steps, "parse")
                /\ pc' = "parsed"
                /\ UNCHANGED errVars
           ELSE /\ Raise("Exception", Absent)
                /\ UNCHANGED <<resp, steps>>
    /\ UNCHANGED <<inputVars, setupVars, offer, localSet, remoteSet, remoteDesc, offers,
                   posts, answers, postBody, returnedId, hdlVars, connVars,
                   sigTasks, loopStopped, sinkVars, blackholeStarted>>

\* answer = RTCSessionDescription(sdp=resp["sdp"], type=resp["type"]) raises
\* KeyError when a key is missing; then setRemoteDescription(answer) is called.
SetRemoteBegin ==
    /\ pc = "parsed" /\ ~loopStopped
    /\ IF HasKey(resp, "sdp") /\ HasKey(resp, "type")
         THEN \E res \in EngineResults :
                IF res = "ok"
                  THEN pc' = "setting_remote" /\ UNCHANGED errVars
                  ELSE Raise("Exception", Absent)
         ELSE Raise("Exception", Absent)
    /\ UNCHANGED <<inputVars, setupVars, negoVars, hdlVars, connVars, sigTasks,
                   loopStopped, sinkVars, blackholeStarted>>

\* Mutant: setRemoteDescription is called without await, as in the package
\* entry-point revision: the function returns with the answer not applied.
SetRemoteFinish_NotAwaited ==
    /\ pc = "setting_remote" /\ ~loopStopped
    /\ steps' = Append(steps, "remote")
    /\ IF HasKey(resp, "id")
         THEN /\ returnedId' = resp.id
              /\ blackholeStarted' = TRUE
              /\ pc' = "done"
              /\ UNCHANGED errVars
         ELSE /\ Raise("Exception", Absent)
              /\ UNCHANGED <<returnedId, blackholeStarted>>
    /\ UNCHANGED <<inputVars, setupVars, offer, localSet, remoteSet, remoteDesc, answers,
                   offers, posts, postBody, resp, hdlVars, connVars, sigTasks,
                   loopStopped, sinkVars>>

\* Mutant: the answer is built with a fixed type.
AnswerOf_FixedType(r) == [sdp |-> r.sdp, type |-> "answer"]

\* answer = RTCSessionDescription(sdp=resp["sdp"], type=resp["type"])
AnswerOf(r) == [sdp |-> r.sdp, type |-> r.type]

\* setRemoteDescription returns with the answer applied; then
\* return resp["id"] (KeyError when the key is missing) and, back in main(),
\* media_blackhole.start().
SetRemoteFinish ==
    /\ pc = "setting_remote" /\ ~loopStopped
    /\ remoteSet' = TRUE
    /\ remoteDesc' = AnswerOf(resp)
    /\ answers' = answers + 1
    /\ steps' = Append(steps, "remote")
    /\ IF HasKey(resp, "id")
         THEN /\ returnedId' = resp.id
              /\ blackholeStarted' = TRUE
              /\ pc' = "done"
              /\ UNCHANGED errVars
         ELSE /\ Raise("Exception", Absent)
              /\ UNCHANGED <<returnedId, blackholeStarted>>
    /\ UNCHANGED <<inputVars, setupVars, offer, localSet, offers, posts,
                   postBody, resp, hdlVars, connVars, sigTasks, loopStopped,
                   sinkVars>>


(***************************************************************************)
(* The peer connection as the client uses it.                              *)
(***************************************************************************)

\* await peer_conn.close(): the first call closes the connection (its state
\* becomes "closed" and the state-change event is emitted); a call on a
\* closed connection returns at once and changes nothing.  n is the number
\* of scheduled observer coroutines before the event is counted.
CloseConn(n) ==
    /\ connClosed' = TRUE
    /\ connectionState' = "closed"
    /\ pendingEvents' = IF connClosed THEN n ELSE n + 1

\* The connectivity states the engine moves through on its own once both
\* descriptions are set.
EngineTransitions ==
    {<<"new", "connecting">>, <<"connecting", "connected">>,
     <<"connecting", "failed">>, <<"connected", "failed">>}

\* The engine changes the connectivity state and emits connectionstatechange:
\* the observer coroutine is scheduled on the loop.
EngineStateChange ==
    /\ ~loopStopped /\ connCreated /\ ~connClosed /\ remoteSet
    /\ \E t \in EngineTransitions :
         /\ t[1] = connectionState
         /\ connectionState' = t[2]
    /\ pendingEvents' = pendingEvents + 1
    /\ UNCHANGED <<inputVars, pc, setupVars, negoVars, errVars, hdlVars,
                   connClosed, sigTasks, loopStopped, sinkVars,
                   blackholeStarted>>

\* Mutant: the observer closes on the wrong state.
ClosesOnState_Wrong(state) == state = "connected"

\* The state in which on_conn_state_change closes the connection.
ClosesOnState(state) == state = "failed"

\* What on_conn_state_change does when it runs: it reads the current state.
ConnStateReaction ==
    /\ IF ClosesOnState(connectionState)
         THEN CloseConn(pendingEvents - 1)
         ELSE /\ pendingEvents' = pendingEvents - 1
              /\ UNCHANGED <<connClosed, connectionState>>
    /\ UNCHANGED loopStopped

\* on_conn_state_change()
OnConnStateChange ==
    /\ ~loopStopped /\ pendingEvents > 0
    /\ ConnStateReaction
    /\ UNCHANGED <<inputVars, pc, setupVars, negoVars, errVars, hdlVars,
                   sigTasks, sinkVars, blackholeStarted>>

(***************************************************************************)
(* Shutdown signals.                                                       *)
(***************************************************************************)

\* SIGINT or SIGTERM: the handler registered by create_video_conn runs on the
\* loop and creates an on_stop_signal() task.
SignalHandler ==
    /\ ~loopStopped /\ connCreated
    /\ Len(sigTasks) < MaxSignals
    /\ sigTasks' = Append(sigTasks, "created")
    /\ UNCHANGED <<inputVars, pc, setupVars, negoVars, errVars, hdlVars,
                   connVars, loopStopped, sinkVars, blackholeStarted>>

\* Mutant: the signal reaction cancels the main() task.
StopSignalClose_Cancels(i) ==
    /\ ~loopStopped
    /\ sigTasks[i] = "created"
    /\ sigTasks' = [sigTasks EXCEPT ![i] = "closing"]
    /\ CloseConn(pendingEvents)
    /\ IF pc \in {"done", "failed"}
         THEN UNCHANGED <<pc, errVars>>
         ELSE Raise("CancelledError", Absent)
    /\ UNCHANGED <<inputVars, setupVars, negoVars, hdlVars, loopStopped,
                   sinkVars, blackholeStarted>>

\* on_stop_signal(), up to the await: peer_conn.close() is called.
StopSignalClose(i) ==
    /\ ~loopStopped
    /\ sigTasks[i] = "created"
    /\ sigTasks' = [sigTasks EXCEPT ![i] = "closing"]
    /\ CloseConn(pendingEvents)
    /\ UNCHANGED <<inputVars, pc, setupVars, negoVars, errVars, hdlVars,
                   loopStopped, sinkVars, blackholeStarted>>

\* on_stop_signal(), after the await: event_loop.stop().
StopSignalStop(i) ==
    /\ ~loopStopped
    /\ sigTasks[i] = "closing"
    /\ sigTasks' = [sigTasks EXCEPT ![i] = "done"]
    /\ loopStopped' = TRUE
    /\ UNCHANGED <<inputVars, pc, setupVars, negoVars, errVars, hdlVars,
                   connVars, sinkVars, blackholeStarted>>

StopSignalTask ==
    \E i \in DOMAIN sigTasks : StopSignalClose(i) \/ StopSignalStop(i)

(***************************************************************************)
(* Inbound tracks and the display path.                                    *)
(***************************************************************************)

\* cv2.namedWindow("Debug") and cv2.imshow("Debug", ...) create the window
\* when there is none of that name; n counts the creations.
Created(open, n) == IF open THEN n ELSE n + 1

\* Mutant: on_track does not look at the kind of the track.
CreatesDisplaySink_Any(accept, kind) == TRUE

\* The tracks on_track wraps in a display sink.
CreatesDisplaySink(accept, kind) == kind = "video"

\* on_track(track), called by the engine for every inbound track of the
\* answer while setRemoteDescription runs.
OnTrack(kind) ==
    /\ pc = "setting_remote" /\ ~loopStopped
    /\ tracksDelivered < MaxTracks
    /\ tracksDelivered' = tracksDelivered + 1
    /\ IF CreatesDisplaySink(acceptDebugVideo, kind)
         THEN /\ sinks' = Append(sinks, "idle")
              /\ windowOpen' = TRUE
              /\ windowCreates' = Created(windowOpen, windowCreates)
         ELSE UNCHANGED <<sinks, windowOpen, windowCreates>>
    /\ UNCHANGED <<inputVars, pc, setupVars, negoVars, errVars, hdlVars,
                   connVars, sigTasks, loopStopped, blackholeStarted, frames>>

InboundTrack == \E kind \in TrackKinds : OnTrack(kind)

\* Mutant: the quit key stops the display without closing the connection.
RecvFrame_NoClose(i, key) ==
    /\ blackholeStarted /\ ~loopStopped
    /\ sinks[i] = "idle"
    /\ windowCreates' = Created(windowOpen, windowCreates)
    /\ IF key = "q"
         THEN /\ windowOpen' = FALSE
              /\ sinks' = [sinks EXCEPT ![i] = "closing"]
              /\ UNCHANGED <<frames, connVars>>
         ELSE /\ frames < MaxFrames
              /\ frames' = frames + 1
              /\ windowOpen' = TRUE
              /\ UNCHANGED <<sinks, connVars>>
    /\ UNCHANGED <<inputVars, pc, setupVars, negoVars, errVars, hdlVars,
                   sigTasks, loopStopped, tracksDelivered, blackholeStarted>>

\* VideoDisplayTrack.recv(), up to the await of close(): a frame of the
\* relayed track (one queued before the close may still arrive) is shown; on
\* the quit key the window is destroyed and the connection closed.
RecvFrame(i, key) ==
    /\ blackholeStarted /\ ~loopStopped
    /\ sinks[i] = "idle"
    /\ windowCreates' = Created(windowOpen, windowCreates)
    /\ IF key = "q"
         THEN /\ windowOpen' = FALSE
              /\ sinks' = [sinks EXCEPT ![i] = "closing"]
              /\ CloseConn(pendingEvents)
              /\ UNCHANGED frames
         ELSE /\ frames < MaxFrames
              /\ frames' = frames + 1
              /\ windowOpen' = TRUE
              /\ UNCHANGED <<sinks, connVars>>
    /\ UNCHANGED <<inputVars, pc, setupVars, negoVars, errVars, hdlVars,
                   sigTasks, loopStopped, tracksDelivered, blackholeStarted>>

\* VideoDisplayTrack.recv(), after the await: the loop is stopped.
QuitStop(i) ==
    /\ ~loopStopped
    /\ sinks[i] = "closing"
    /\ sinks' = [sinks EXCEPT ![i] = "quit"]
    /\ loopStopped' = TRUE
    /\ UNCHANGED <<inputVars, pc, setupVars, negoVars, errVars, hdlVars,
                   connVars, sigTasks, windowOpen, windowCreates,
                   tracksDelivered, blackholeStarted, frames>>

DisplayFrame == \E i \in DOMAIN sinks : \E key \in Keys : RecvFrame(i, key)

DisplayQuit == \E i \in DOMAIN sinks : QuitStop(i)

(***************************************************************************)
(* The loop's exception handler.                                           *)
(***************************************************************************)

\* How exception_handler logs: the message alone for AppException, the full
\* traceback for anything else.
LogLevel(kind) == IF kind = "AppException" THEN "error" ELSE "exception"

\* Mutant: the handler stops the loop for application errors only.
HandleException_AppOnly(kind) ==
    /\ handled' = TRUE
    /\ logged' = LogLevel(kind)
    /\ loopStopped' = (loopStopped \/ kind = "AppException")

\* What exception_handler does for an exception of this kind.
HandleException(kind) ==
    /\ handled' = TRUE
    /\ logged' = LogLevel(kind)
    /\ loopStopped' = TRUE

\* The failed main() task is finalized with its exception never retrieved:
\* the loop's exception handler is called.
ExceptionHandler ==
    /\ pc = "failed" /\ ~handled
    /\ HandleException(failure)
    /\ UNCHANGED <<inputVars, pc, setupVars, negoVars, errVars, connVars,
                   sigTasks, sinkVars, blackholeStarted>>

(***************************************************************************)
(* Specifications.                                                         *)
(***************************************************************************)

\* The steps every specification shares.
Common ==
    \/ CreateTrack
    \/ CreateOffer
    \/ SetLocalDescription
    \/ SendPost
    \/ PostConnectFail
    \/ PostResponse
    \/ SetRemoteBegin
    \/ SetRemoteFinish
    \/ EngineStateChange
    \/ OnConnStateChange
    \/ SignalHandler
    \/ StopSignalTask
    \/ InboundTrack
    \/ DisplayFrame
    \/ DisplayQuit
    \/ ExceptionHandler

\* The program: main() creates the connection.
Next == MainCreateConn \/ Common

Spec == Init /\ [][Next]_vars

\* The loop runs every callback that is ready, and a failed task is
\* finalized.
FairSpec ==
    /\ Spec
    /\ WF_vars(ExceptionHandler)
    /\ WF_vars(StopSignalTask)
    /\ WF_vars(OnConnStateChange)
    /\ WF_vars(DisplayQuit)

\* create_video_conn called with either value of accept_debug_video.
AnyCreateConn == \E accept \in BOOLEAN : CreateVideoConn(accept)

NextConn == AnyCreateConn \/ Common

SpecConn == Init /\ [][NextConn]_vars


(***************************************************************************)
(* The package entry-point revision (src/jwo_video_client/__main__.py):    *)
(* main() creates the track and the connection and runs                    *)
(* send_rtc_conn_offer() to its end with asyncio.run.                      *)
(***************************************************************************)

pkgIdle == <<hdlVars, sigTasks, loopStopped, sinkVars, blackholeStarted,
             inputVars, acceptDebugVideo, remoteDesc, answers, returnedId>>

\* create_video_track(dev_idx, size, frame_rate): the capture device.
PkgCreateTrack ==
    /\ pc = "start"
    /\ source' = {"device"}
    /\ \E opened \in BOOLEAN :
         IF opened
           THEN /\ steps' = Append(steps, "track")
                /\ pc' = "track"
                /\ UNCHANGED errVars
           ELSE /\ Raise("Exception", Absent)
                /\ UNCHANGED steps
    /\ UNCHANGED <<pkgIdle, connCreated, direction, offer, localSet, remoteSet,
                   offers, posts, postBody, resp, connVars>>

\* create_rtc_peer_connection(video_track): the observer and addTrack.
PkgCreateConn ==
    /\ pc = "track"
    /\ connCreated' = TRUE
    /\ direction' = "sendrecv"
    /\ steps' = Append(steps, "conn")
    /\ pc' = "conn"
    /\ UNCHANGED <<pkgIdle, source, offer, localSet, remoteSet, offers, posts,
                   postBody, resp, connVars, errVars>>

\* offer = await connection.createOffer()
PkgCreateOffer ==
    /\ pc = "conn"
    /\ \E res \in EngineResults :
         IF res = "ok"
           THEN /\ \E o \in OfferSdps : offer' = o
                /\ offers' = offers + 1
                /\ steps' = Append(steps, "offer")
                /\ pc' = "offer"
                /\ UNCHANGED errVars
           ELSE /\ Raise("Exception", Absent)
                /\ UNCHANGED <<offer, offers, steps>>
    /\ UNCHANGED <<pkgIdle, source, connCreated, direction, localSet,
                   remoteSet, posts, postBody, resp, connVars>>

\* await connection.setLocalDescription(offer)
PkgSetLocalDescription ==
    /\ pc = "offer"
    /\ \E res \in EngineResults :
         IF res = "ok"
           THEN /\ localSet' = TRUE
                /\ steps' = Append(steps, "local")
                /\ pc' = "local"
                /\ UNCHANGED errVars
           ELSE /\ Raise("Exception", Absent)
                /\ UNCHANGED <<localSet, steps>>
    /\ UNCHANGED <<pkgIdle, source, connCreated, direction, offer, remoteSet,
                   offers, posts, postBody, resp, connVars>>

\* session.post(server_url, json={"sdp": offer.sdp, "type": offer.type})
PkgSendPost ==
    /\ pc = "local"
    /\ postBody' = [sdp |-> offer, type |-> OfferType]
    /\ posts' = posts + 1
    /\ steps' = Append(steps, "post")
    /\ pc' = "posting"
    /\ UNCHANGED <<pkgIdle, source, connCreated, direction, offer, localSet,
                   remoteSet, offers, resp, connVars, errVars>>

\* except Exception: await connection.close(); raise exc
PkgCloseAndRaise ==
    /\ CloseConn(pendingEvents)
    /\ Raise("Exception", Absent)

\* The POST fails.
PkgPostFail ==
    /\ pc = "posting"
    /\ PkgCloseAndRaise
    /\ UNCHANGED <<pkgIdle, source, connCreated, direction, offer, localSet,
                   remoteSet, offers, posts, steps, postBody, resp>>

\* The response arrives; resp.json() and the construction of the answer
\* from resp["sdp"] and resp["type"] are inside the try block.
PkgPostResponse ==
    /\ pc = "posting"
    /\ \E r \in AllResponses :
         IF r.json /\ HasKey(r, "sdp") /\ HasKey(r, "type")
           THEN /\ resp' = r
                /\ steps' = Append(steps, "parse")
                /\ pc' = "parsed"
                /\ UNCHANGED <<errVars, connVars>>
           ELSE /\ PkgCloseAndRaise
                /\ UNCHANGED <<resp, steps>>
    /\ UNCHANGED <<pkgIdle, source, connCreated, direction, offer, localSet,
                   remoteSet, offers, posts, postBody>>

\* connection.setRemoteDescription(answer) without await: the coroutine
\* object is created and dropped, its body never runs; the function returns.
PkgSetRemoteDescription ==
    /\ pc = "parsed"
    /\ pc' = "done"
    /\ UNCHANGED <<pkgIdle, source, connCreated, direction, offer, localSet,
                   remoteSet, offers, posts, steps, postBody, resp, connVars,
                   errVars>>

NextPkg ==
    \/ PkgCreateTrack
    \/ PkgCreateConn
    \/ PkgCreateOffer
    \/ PkgSetLocalDescription
    \/ PkgSendPost
    \/ PkgPostFail
    \/ PkgPostResponse
    \/ PkgSetRemoteDescription

\* This revision has no command line: neither flag exists.
InitPkg == Init /\ ~debugFlag /\ ~fileGiven

SpecPkg == InitPkg /\ [][NextPkg]_vars

(***************************************************************************)
(* Properties.                                                             *)
(***************************************************************************)

\* The order of the startup steps.
Order == <<"track", "conn", "offer", "local", "post", "parse", "remote">>

IsPrefix(s, t) == Len(s) <= Len(t) /\ s = SubSeq(t, 1, Len(s))

\* C1: over the whole run at most one offer is created, at most one POST is
\* issued and at most one answer is applied; when the exchange has succeeded
\* each of the three has happened exactly once.
C1_SingleExchange ==
    /\ offers <= 1 /\ posts <= 1 /\ answers <= 1
    /\ (pc = "done" => offers = 1 /\ posts = 1 /\ answers = 1)

C1_Witness == pc = "done" /\ offers = 1 /\ posts = 1 /\ answers = 1

\* C2: the startup steps happen in the order track, connection, offer, local
\* description, POST, parse, remote description, none skipped or reordered;
\* the remote description is set only after all the earlier steps.
C2_StartupOrder ==
    /\ IsPrefix(steps, Order)
    /\ (remoteSet => steps = Order)
    /\ (localSet => IsPrefix(<<"track", "conn", "offer", "local">>, steps))
    /\ (posts > 0 => localSet)

C2_Witness == remoteSet /\ steps = Order

\* C3: when the POST fails to connect, the call fails with the application
\* error carrying the attempted url, the POST is not retried, and the
\* connection has been closed when the error reaches the caller.
C3_UnreachableClosesConn ==
    failure = "AppException" =>
        /\ errUrl = serverUrl
        /\ posts = 1
        /\ connClosed

\* C4: whenever send_video_conn_offer has returned, both descriptions are
\* set, and no signaling step (offer, POST, description change) follows.
C4_ReturnedBothSet ==
    [][ /\ (returnedId' # Absent => localSet' /\ remoteSet')
        /\ (returnedId # Absent =>
              UNCHANGED <<offer, offers, posts, answers, localSet, remoteSet,
                          remoteDesc,
                          postBody, returnedId>>) ]_vars

C4_Witness ==
    /\ returnedId # Absent /\ localSet /\ remoteSet
    /\ connectionState = "connected"

\* C5 (as claimed): while the POST is outstanding no signal reaction closes
\* the connection or stops the loop.
C5_SignalWaitsForPost ==
    [][ pc = "posting" =>
          \A i \in DOMAIN sigTasks : sigTasks'[i] = sigTasks[i] ]_vars

\* C5 (amended): the signal reaction does not wait for the POST and does not
\* cancel it: a step of the reaction leaves the negotiation (the position of
\* main(), offer, POST, descriptions, failure) as it is, also while the POST
\* is outstanding.
C5_SignalLeavesNegotiation ==
    [][ sigTasks' # sigTasks => UNCHANGED <<pc, negoVars, errVars>> ]_vars

C5_Witness ==
    /\ pc = "posting" /\ connClosed /\ loopStopped
    /\ \E i \in DOMAIN sigTasks : sigTasks[i] = "done"

\* C6: once a shutdown signal has been received and the loop has stopped, the
\* connection is closed.
C6_SignalClosesThenStops ==
    (Len(sigTasks) > 0 /\ loopStopped) => connClosed

\* C7: the observer closes the connection when it finds the state "failed"
\* and leaves it as it is in any other state; neither the transition nor the
\* observer stops the loop, which stops only through the exception handler,
\* the signal reaction or the quit action.
C7_FailedStateCloses ==
    [][ /\ (OnConnStateChange /\ connectionState = "failed" => connClosed')
        /\ (OnConnStateChange /\ connectionState # "failed" =>
              UNCHANGED connClosed)
        /\ (OnConnStateChange \/ EngineStateChange => UNCHANGED loopStopped)
        /\ (~loopStopped /\ loopStopped' =>
              \/ ~handled /\ handled'
              \/ \E i \in DOMAIN sigTasks :
                   sigTasks[i] = "closing" /\ sigTasks'[i] = "done"
              \/ \E i \in DOMAIN sinks :
                   sinks[i] = "closing" /\ sinks'[i] = "quit") ]_vars

C7_Witness ==
    /\ connClosed /\ ~loopStopped /\ sigTasks = <<>>
    /\ \A i \in DOMAIN sinks : sinks[i] = "idle"

\* C8: with accept_debug_video false the transceiver is send-only and an
\* inbound video track creates no display sink and no window; with it true
\* the transceiver is send+receive and an inbound video track creates a sink.
C8_SinkOnlyWhenAccepted ==
    [][ /\ (connCreated' =>
              direction' = IF acceptDebugVideo' THEN "sendrecv" ELSE "sendonly")
        /\ (tracksDelivered' # tracksDelivered /\ ~acceptDebugVideo =>
              UNCHANGED <<sinks, windowOpen>>)
        /\ (OnTrack("video") /\ acceptDebugVideo =>
              Len(sinks') = Len(sinks) + 1) ]_vars

\* C9: in a run without the debug flag there is at most one POST and one
\* answer, the one video track is attached send-only, and no display sink is
\* ever created.
C9_NoDebugNoSink ==
    ~debugFlag =>
        /\ posts <= 1 /\ answers <= 1
        /\ (connCreated => direction = "sendonly")
        /\ sinks = <<>> /\ ~windowOpen

\* C10: every failure of main() reaches the exception handler and the loop
\* is stopped; after the failure the main task takes no further step (no
\* reconnection, no second offer or POST).
C10_StartupFailureFatal ==
    /\ (pc = "failed") ~> (handled /\ loopStopped)
    /\ [][ pc = "failed" =>
             pc' = "failed" /\ UNCHANGED <<negoVars, setupVars>> ]_vars

C10_Witness ==
    /\ pc = "failed" /\ failure = "Exception" /\ handled /\ loopStopped
    /\ remoteSet


\* C11: the JSON body of the POST has exactly the three fields sdp, type and
\* use_debug_video: the sdp of the local offer, its type "offer" and the
\* requested debug flag.
C11_PostBodyFields ==
    posts > 0 =>
        /\ DOMAIN postBody = {"sdp", "type", "use_debug_video"}
        /\ postBody.sdp = offer
        /\ postBody.type = "offer"
        /\ postBody.use_debug_video = debugFlag

C11_Witness ==
    /\ posts = 1 /\ debugFlag /\ postBody.use_debug_video
    /\ postBody.sdp = "O2"


\* C12: for a response with sdp A, type T and id I, the remote description
\* applied has sdp A and type T, and the identifier returned is I.
C12_AnswerAndIdFromResponse ==
    /\ (remoteSet => remoteDesc.sdp = resp.sdp /\ remoteDesc.type = resp.type)
    /\ (~remoteSet => remoteDesc = NoDesc)
    /\ (returnedId # Absent => remoteSet /\ returnedId = resp.id)

C12_Witness ==
    /\ resp.sdp = "B" /\ resp.type = "pranswer" /\ resp.id = "abc"
    /\ remoteSet /\ remoteDesc = [sdp |-> "B", type |-> "pranswer"]
    /\ returnedId = "abc"


\* C13: with a file path given the track comes from the file and the capture
\* device is never opened; without one it comes from the capture device;
\* exactly one source is opened in a run.
C13_OneSource ==
    /\ (pc = "start" => source = {})
    /\ (pc # "start" =>
          /\ Cardinality(source) = 1
          /\ (fileGiven => source = {"file"})
          /\ (~fileGiven => source = {"device"}))

C13_Witness == fileGiven /\ source = {"file"} /\ pc = "done"


\* C14: on the quit key the display path destroys the window and closes the
\* connection, and after that stops the loop, as the signal reaction does;
\* a frame without the quit key leaves the connection and the loop as they
\* are.
C14_QuitClosesThenStops ==
    /\ [][ \A i \in DOMAIN sinks :
             /\ (sinks[i] = "idle" /\ sinks'[i] = "closing" =>
                   ~windowOpen' /\ connClosed' /\ UNCHANGED loopStopped)
             /\ (sinks[i] = "closing" /\ sinks'[i] = "quit" =>
                   connClosed /\ ~loopStopped /\ loopStopped') ]_vars
    /\ [][ frames' # frames => UNCHANGED <<connVars, loopStopped, sinks>> ]_vars
    /\ (\E i \in DOMAIN sinks : sinks[i] = "closing") ~> loopStopped

C14_Witness ==
    /\ \E i \in DOMAIN sinks : sinks[i] = "quit"
    /\ loopStopped /\ connClosed /\ ~windowOpen

\* C15: the debug window is created at most once, and it has been destroyed
\* whenever the loop has been stopped by the quit action or by the exception
\* handler.
C15_OneWindowDestroyed ==
    /\ windowCreates <= 1
    /\ (/\ loopStopped
        /\ \A i \in DOMAIN sigTasks : sigTasks[i] # "done"
        /\ (handled \/ \E i \in DOMAIN sinks : sinks[i] = "quit")
        => ~windowOpen)


\* C16: an inbound track whose kind is not video creates no display sink,
\* adds nothing to the sink set and creates no window: nothing changes but
\* the count of tracks delivered.
C16_NonVideoIgnored ==
    [][ OnTrack("audio") =>
          UNCHANGED <<sinks, windowOpen, windowCreates, frames,
                      blackholeStarted, connVars, negoVars, setupVars,
                      sigTasks, loopStopped, pc, errVars, hdlVars>> ]_vars

C16_Witness ==
    /\ tracksDelivered > 0 /\ sinks = <<>>
    /\ ~windowOpen /\ windowCreates = 0 /\ pc = "done"

\* C17: in the package entry-point revision, whenever send_rtc_conn_offer
\* has returned, both the local and the remote description are set.
C17_PkgReturnedBothSet ==
    pc = "done" => localSet /\ remoteSet


\* C18: setRemoteDescription is never invoked, and no remote description is
\* applied, on a connection whose close() has already been called.
C18_NoSignalingAfterClose ==
    [][ /\ (/\ pc = "parsed" /\ pc' # "parsed"
            /\ HasKey(resp, "sdp") /\ HasKey(resp, "type")
            => ~connClosed)
        /\ (~remoteSet /\ remoteSet' => ~connClosed) ]_vars

\* C19: whenever send_video_conn_offer has failed, no remote description has
\* been applied to the connection.
C19_NoPartialSuccess ==
    pc = "failed" => ~remoteSet /\ answers = 0

====
